---- MODULE Spec2Model ----
(***************************************************************************)
(* A model of the RESP server of src/app: the framed-message decoder       *)
(* (redis_command_parser.py), the per-connection session loop and command  *)
(* dispatcher (redis_server.py) and the start-up sequence with the         *)
(* replica handshake (main.py).                                            *)
(*                                                                         *)
(* Representation.  A Python `bytes` value is a sequence of byte tokens:   *)
(* an ASCII byte is the one-character string of its character, any other   *)
(* byte 0xHH is the token "xHH".  A Python `str` is a sequence of          *)
(* characters: an ASCII character is its one-character string, and the     *)
(* token "U+E9" is the single non-ASCII character e-acute, whose UTF-8     *)
(* encoding is the two bytes xC3 xA9.  Time is counted in milliseconds.    *)
(***************************************************************************)
EXTENDS Integers, Sequences, FiniteSets, TLC

VARIABLES
    now,        \* time.time(), in milliseconds
    eof,        \* per session: the client has closed its sending side
    peer,       \* per session: "up", or "down" once the client has gone away
    pc,         \* per session: "await", "dispatch" or "closed"
    cur,        \* per session: the command last returned by get_redis_command
    storage,    \* per session: RedisServer._redis_storage
    outbuf,     \* per session: bytes written to fsocket and not yet flushed
    reply,      \* per session: the writes flushed by the last execute_command
    wire,       \* per session: the number of the command whose response was
                \* flushed last, 0 for none
    ncmd,       \* per session: number of frames get_redis_command has read
    arrived,    \* per session: history, the frame get_redis_command read last
    fsocketOpen,\* per session: self.fsocket is not closed
    socketOpen, \* per session: self.socket_conn is not closed
    lastSet,    \* per session: history, the arguments of the latest SET per key
    nullSeen,   \* per session: history, keys whose entry a GET has reported expired
    mpc,        \* main: position in main() / perform_handshake_with_master()
    replicaof,  \* main: the --replicaof argument
    redis_port, \* main: the --port argument
    toMaster,   \* main: the frames written to the master, in order
    response,   \* main: the reply line last read from the master
    listening,  \* main: the server socket has been created
    backlog,    \* main: client connections waiting to be accepted
    accepted,   \* main: number of client connections accepted
    stream,     \* decoder: the bytes of the connection not yet read
    streamClosed, \* decoder: the peer has closed the connection
    sent,       \* decoder: history, the frames put on the stream, in order
    decoded,    \* decoder: the outcome of the last _parse_resp_input_data
    ndec        \* decoder: number of calls of _parse_resp_input_data

svars == <<eof, peer, pc, cur, storage, outbuf, reply, wire, ncmd, arrived,
           fsocketOpen, socketOpen, lastSet, nullSeen>>
mvars == <<mpc, replicaof, redis_port, toMaster, response, listening, backlog,
           accepted>>
dvars == <<stream, streamClosed, sent, decoded, ndec>>
vars == <<now, svars, mvars, dvars>>

-----------------------------------------------------------------------------
(* Bounds of the model. *)

MaxCmds == 3        \* frames a client sends on one connection
MaxTime == 2        \* the clock runs from 0 to MaxTime milliseconds
MaxConns == 2
MaxFrames == 2      \* frames on a stream the decoder reads
MaxPairCmds == 2    \* frames each of two concurrent clients sends       \* connections the accept loop takes

-----------------------------------------------------------------------------
(* Bytes, characters and numbers. *)

CRLF == <<"\r", "\n">>

None == [t |-> "none"]

Digits == <<"0", "1", "2", "3", "4", "5", "6", "7", "8", "9">>

IsDigit(c) == \E i \in 1..10 : Digits[i] = c

DigitVal(c) == (CHOOSE i \in 1..10 : Digits[i] = c) - 1

\* Bytes of value 0x80 and above that occur in the model.
HighBytes == {"xC3", "xA9", "xFA", "xC0", "xC2", "xBC", "xB0", "xC4", "xFF",
              "xF0", "xFE", "xA2"}

\* str.encode("utf-8"): every ASCII character is one byte, U+E9 is two.
RECURSIVE Utf8Encode(_)
Utf8Encode(s) ==
    IF s = <<>> THEN <<>>
    ELSE (IF s[1] = "U+E9" THEN <<"xC3", "xA9">> ELSE <<s[1]>>) \o Utf8Encode(Tail(s))

\* bytes.decode("utf-8"): [ok, v]; a byte >= 0x80 that does not start the
\* two bytes of U+E9 raises UnicodeDecodeError.
RECURSIVE Utf8Decode(_)
Utf8Decode(b) ==
    IF b = <<>> THEN [ok |-> TRUE, v |-> <<>>]
    ELSE IF b[1] \in HighBytes
         THEN IF Len(b) >= 2 /\ b[1] = "xC3" /\ b[2] = "xA9"
              THEN LET r == Utf8Decode(SubSeq(b, 3, Len(b)))
                   IN  [ok |-> r.ok, v |-> <<"U+E9">> \o r.v]
              ELSE [ok |-> FALSE, v |-> <<>>]
         ELSE LET r == Utf8Decode(Tail(b))
              IN  [ok |-> r.ok, v |-> <<b[1]>> \o r.v]

\* str(n) / f"{n}" for an integer n.
RECURSIVE DecNat(_)
DecNat(n) == IF n < 10 THEN <<Digits[n + 1]>>
             ELSE DecNat(n \div 10) \o <<Digits[(n % 10) + 1]>>

Dec(n) == IF n < 0 THEN <<"-">> \o DecNat(0 - n) ELSE DecNat(n)

\* rstrip("\r\n"): drops every trailing CR and LF.
RECURSIVE RStripCRLF(_)
RStripCRLF(s) ==
    IF s # <<>> /\ s[Len(s)] \in {"\r", "\n"}
    THEN RStripCRLF(SubSeq(s, 1, Len(s) - 1))
    ELSE s

Whitespace == {" ", "\t", "\r", "\n"}

RECURSIVE StripWs(_)
StripWs(s) ==
    IF s # <<>> /\ s[1] \in Whitespace THEN StripWs(Tail(s))
    ELSE IF s # <<>> /\ s[Len(s)] \in Whitespace
         THEN StripWs(SubSeq(s, 1, Len(s) - 1))
         ELSE s

RECURSIVE DigitsValue(_, _)
DigitsValue(s, acc) ==
    IF s = <<>> THEN acc
    ELSE IF s[1] = "_" THEN DigitsValue(Tail(s), acc)
         ELSE DigitsValue(Tail(s), 10 * acc + DigitVal(s[1]))

\* The digit part of an integer literal: digits, single underscores between.
DigitsOK(s) ==
    /\ s # <<>>
    /\ IsDigit(s[1]) /\ IsDigit(s[Len(s)])
    /\ \A i \in 1..Len(s) : IsDigit(s[i]) \/ s[i] = "_"
    /\ \A i \in 1..(Len(s) - 1) : ~(s[i] = "_" /\ s[i + 1] = "_")

\* int(x) for a str or bytes x: [ok, v]; not ok is ValueError.
ParseInt(x) ==
    LET s == StripWs(x)
        signed == s # <<>> /\ s[1] \in {"+", "-"}
        d == IF signed THEN Tail(s) ELSE s
    IN  IF DigitsOK(d)
        THEN [ok |-> TRUE,
              v |-> IF signed /\ s[1] = "-" THEN 0 - DigitsValue(d, 0)
                    ELSE DigitsValue(d, 0)]
        ELSE [ok |-> FALSE, v |-> 0]

-----------------------------------------------------------------------------
(* The buffered stream of a connection (socket.makefile("rwb")).  A read   *)
(* returns [st, data, rest]: st is "ok", or "block" while the bytes asked  *)
(* for have not arrived and the peer has not closed.                       *)

HasLF(buf) == \E i \in 1..Len(buf) : buf[i] = "\n"

FirstLF(buf) == CHOOSE i \in 1..Len(buf) :
                    buf[i] = "\n" /\ \A j \in 1..(i - 1) : buf[j] # "\n"

\* fsocket.readline(): through the first LF, or to the end of a closed stream.
ReadLine(buf, closed) ==
    IF HasLF(buf)
    THEN [st |-> "ok", data |-> SubSeq(buf, 1, FirstLF(buf)),
          rest |-> SubSeq(buf, FirstLF(buf) + 1, Len(buf))]
    ELSE IF closed THEN [st |-> "ok", data |-> buf, rest |-> <<>>]
         ELSE [st |-> "block", data |-> <<>>, rest |-> buf]

\* fsocket.read(n): n bytes, fewer at the end of a closed stream; a negative
\* n reads to the end of the stream.
ReadN(buf, n, closed) ==
    IF n >= 0 /\ Len(buf) >= n
    THEN [st |-> "ok", data |-> SubSeq(buf, 1, n), rest |-> SubSeq(buf, n + 1, Len(buf))]
    ELSE IF closed THEN [st |-> "ok", data |-> buf, rest |-> <<>>]
         ELSE [st |-> "block", data |-> <<>>, rest |-> buf]

\* b[:-2]
DropLast2(b) == IF Len(b) <= 2 THEN <<>> ELSE SubSeq(b, 1, Len(b) - 2)

-----------------------------------------------------------------------------
(* RedisCommandParser: the frame decoder.  A decode returns                *)
(* [st, val, rest]: st is "ok" with the decoded value, "exc" with the name *)
(* of the exception raised, or "block".  Decoded values are tagged:        *)
(* [t |-> "str"], "error", "int", "arr" or "map", with the content in v.   *)

Ok(val, rest) == [st |-> "ok", val |-> val, rest |-> rest]

Exc(name, rest) == [st |-> "exc", val |-> name, rest |-> rest]

Block(rest) == [st |-> "block", val |-> None, rest |-> rest]

DataTypes == {"+", "-", ":", "$", "*", "%"}

\* Every operator below that reads the stream hands the outcome of its
\* read to an operator named ...Of, which holds the rest of the handler.

\* readline().decode("utf-8").rstrip("\r\n")
SimpleStringOf(l, buf) ==
    LET d == Utf8Decode(l.data)
    IN  IF l.st = "block" THEN Block(buf)
        ELSE IF ~d.ok THEN Exc("UnicodeDecodeError", l.rest)
        ELSE Ok([t |-> "str", v |-> RStripCRLF(d.v)], l.rest)

HandleSimpleString(buf, closed) == SimpleStringOf(ReadLine(buf, closed), buf)

ErrorOf(r) == IF r.st = "ok" THEN Ok([t |-> "error", v |-> r.val.v], r.rest) ELSE r

HandleError(buf, closed) == ErrorOf(HandleSimpleString(buf, closed))

\* int(readline().rstrip(b"\r\n"))
IntLineOf(l, buf) ==
    LET n == ParseInt(RStripCRLF(l.data))
    IN  IF l.st = "block" THEN Block(buf)
        ELSE IF ~n.ok THEN Exc("ValueError", l.rest)
        ELSE Ok(n.v, l.rest)

ReadIntLine(buf, closed) == IntLineOf(ReadLine(buf, closed), buf)

IntegerOf(r) == IF r.st = "ok" THEN Ok([t |-> "int", v |-> r.val], r.rest) ELSE r

HandleInteger(buf, closed) == IntegerOf(ReadIntLine(buf, closed))

\* BulkStringOf with the fault of leaving the CRLF after the content unread.
BulkStringOfContentOnly(n, buf, closed) ==
    LET length == n.val
        b == ReadN(n.rest, length, closed)
        d == Utf8Decode(b.data)
    IN  IF n.st # "ok" THEN n
        ELSE IF b.st = "block" THEN Block(buf)
        ELSE IF ~d.ok THEN Exc("UnicodeDecodeError", b.rest)
        ELSE Ok([t |-> "str", v |-> d.v], b.rest)

\* length = int(...); length += 2; read(length)[:-2].decode("utf-8")
BulkStringOf(n, buf, closed) ==
    LET length == n.val + 2
        b == ReadN(n.rest, length, closed)
        d == Utf8Decode(DropLast2(b.data))
    IN  IF n.st # "ok" THEN n
        ELSE IF b.st = "block" THEN Block(buf)
        ELSE IF ~d.ok THEN Exc("UnicodeDecodeError", b.rest)
        ELSE Ok([t |-> "str", v |-> d.v], b.rest)

HandleBulkString(buf, closed) == BulkStringOf(ReadIntLine(buf, closed), buf, closed)

\* A value can be a dict key unless it is a list, a dict or an Error
\* (a dataclass with eq and without frozen has no hash).
Hashable(val) == val.t \in {"str", "int"}

\* dict(zip(elements[::2], elements[1::2])): the pairs in order of first
\* insertion, a later value replacing an earlier one of an equal key.
RECURSIVE DictOf(_, _)
DictOf(elements, acc) ==
    IF Len(elements) < 2 THEN acc
    ELSE LET k == elements[1]
             w == elements[2]
             rest == SubSeq(elements, 3, Len(elements))
             seen == \E i \in 1..Len(acc) : acc[i][1] = k
         IN  IF seen
             THEN DictOf(rest, [i \in 1..Len(acc) |->
                                  IF acc[i][1] = k THEN <<k, w>> ELSE acc[i]])
             ELSE DictOf(rest, Append(acc, <<k, w>>))

RECURSIVE ParseRespInputData(_, _)
RECURSIVE ParseElements(_, _, _, _)

ElementsOf(r, closed, n, acc) ==
    IF r.st # "ok" THEN r
    ELSE ParseElements(r.rest, closed, n - 1, Append(acc, r.val))

\* [self._parse_resp_input_data() for _ in range(n)], acc the values so far.
ParseElements(buf, closed, n, acc) ==
    IF n <= 0 THEN Ok(acc, buf)
    ELSE ElementsOf(ParseRespInputData(buf, closed), closed, n, acc)

ArrayOfElements(e) == IF e.st = "ok" THEN Ok([t |-> "arr", v |-> e.val], e.rest) ELSE e

ArrayOf(n, closed) ==
    IF n.st # "ok" THEN n
    ELSE ArrayOfElements(ParseElements(n.rest, closed, n.val, <<>>))

HandleArray(buf, closed) == ArrayOf(ReadIntLine(buf, closed), closed)

DictOfElements(e) ==
    IF e.st # "ok" THEN e
    ELSE IF \E i \in 1..Len(e.val) : i % 2 = 1 /\ ~Hashable(e.val[i])
         THEN Exc("TypeError", e.rest)
    ELSE Ok([t |-> "map", v |-> DictOf(e.val, <<>>)], e.rest)

DictOfCount(n, closed) ==
    IF n.st # "ok" THEN n
    ELSE DictOfElements(ParseElements(n.rest, closed, n.val * 2, <<>>))

HandleDict(buf, closed) == DictOfCount(ReadIntLine(buf, closed), closed)

\* return self._data_handlers[data_type]()
DataHandler(data_type, buf, closed) ==
    CASE data_type = "+" -> HandleSimpleString(buf, closed)
      [] data_type = "-" -> HandleError(buf, closed)
      [] data_type = ":" -> HandleInteger(buf, closed)
      [] data_type = "$" -> HandleBulkString(buf, closed)
      [] data_type = "*" -> HandleArray(buf, closed)
      [] data_type = "%" -> HandleDict(buf, closed)

\* A read that blocks inside a frame leaves the whole frame unread.
BlockWhole(r, buf) == IF r.st = "block" THEN Block(buf) ELSE r

RespInputDataOf(t, buf, closed) ==
    IF t.st = "block" THEN Block(buf)
    ELSE IF t.data = <<>> THEN Exc("CommandError", t.rest)
    ELSE IF t.data[1] \in HighBytes THEN Exc("UnicodeDecodeError", t.rest)
    ELSE IF t.data[1] \notin DataTypes THEN Exc("CommandError", t.rest)
    ELSE BlockWhole(DataHandler(t.data[1], t.rest, closed), buf)

\* _parse_resp_input_data: one byte of type tag, then the tag's handler.
ParseRespInputData(buf, closed) == RespInputDataOf(ReadN(buf, 1, closed), buf, closed)

-----------------------------------------------------------------------------
(* Commands.  RedisCommand is the enumeration of redis_server.py's match   *)
(* statement; a member is written as the TLA+ string of its name.          *)

S_PING == <<"P", "I", "N", "G">>

S_ECHO == <<"E", "C", "H", "O">>

S_SET == <<"S", "E", "T">>

S_GET == <<"G", "E", "T">>

S_DELETE == <<"D", "E", "L", "E", "T", "E">>

S_INFO == <<"I", "N", "F", "O">>

S_REPLCONF == <<"R", "E", "P", "L", "C", "O", "N", "F">>

S_PSYNC == <<"P", "S", "Y", "N", "C">>

S_FOO == <<"F", "O", "O">>

S_PX == <<"P", "X">>

S_px == <<"p", "x">>

S_EX == <<"E", "X">>

S_replication == <<"r", "e", "p", "l", "i", "c", "a", "t", "i", "o", "n">>

S_keyspace == <<"k", "e", "y", "s", "p", "a", "c", "e">>

S_listening_port == <<"l", "i", "s", "t", "e", "n", "i", "n", "g", "-", "p", "o", "r", "t">>

S_capa == <<"c", "a", "p", "a">>

S_psync2 == <<"p", "s", "y", "n", "c", "2">>

RedisCommand == {"PING", "ECHO", "SET", "GET", "DELETE", "INFO", "REPLCONF", "PSYNC"}

\* The member of RedisCommand a command name stands for, "" for none.
CommandOf(name) ==
    CASE name = S_PING -> "PING"
      [] name = S_ECHO -> "ECHO"
      [] name = S_SET -> "SET"
      [] name = S_GET -> "GET"
      [] name = S_DELETE -> "DELETE"
      [] name = S_INFO -> "INFO"
      [] name = S_REPLCONF -> "REPLCONF"
      [] name = S_PSYNC -> "PSYNC"
      [] OTHER -> ""

\* get_redis_command: decodes one frame, which must be a non-empty array of
\* bulk strings, and returns the command of its first element with the
\* remaining elements as arguments; raises for an unknown command name.
CommandOfData(r) ==
    IF r.st # "ok" THEN r
    ELSE IF r.val.t # "arr" THEN Exc("RedisCommandError", r.rest)
    ELSE IF r.val.v = <<>> THEN Exc("RedisCommandError", r.rest)
    ELSE IF \E i \in 1..Len(r.val.v) : r.val.v[i].t # "str"
         THEN Exc("RedisCommandError", r.rest)
    ELSE IF CommandOf(r.val.v[1].v) = "" THEN Exc("RedisCommandError", r.rest)
    ELSE Ok([cmd |-> CommandOf(r.val.v[1].v),
             args |-> [i \in 1..(Len(r.val.v) - 1) |-> r.val.v[i + 1].v]], r.rest)

GetCommand(buf, closed) == CommandOfData(ParseRespInputData(buf, closed))

-----------------------------------------------------------------------------
(* ServerInfo (data.py) *)

master_replid == 
    <<"8", "3", "7", "1", "b", "4", "f", "b", "1", "1", "5", "5", "b", "7", "1", "f", "4", "a", "0", "4",
     "d", "3", "e", "1", "b", "c", "3", "e", "1", "8", "c", "4", "a", "9", "9", "0", "a", "e", "e", "b">>

master_repl_offset == 0

\* ServerRole is a StrEnum whose members are auto(): the value of a member
\* is its name in lower case.
ServerRole(role) == IF role = "master" THEN <<"m", "a", "s", "t", "e", "r">>
                    ELSE <<"s", "l", "a", "v", "e">>

-----------------------------------------------------------------------------
(* RedisServer: encoding of replies. *)

LowerCase ==
    <<"a", "b", "c", "d", "e", "f", "g", "h", "i", "j", "k", "l", "m", "n", "o", "p", "q", "r", "s", "t", "u", "v", "w", "x", "y", "z">>

UpperCase ==
    <<"A", "B", "C", "D", "E", "F", "G", "H", "I", "J", "K", "L", "M", "N", "O", "P", "Q", "R", "S", "T", "U", "V", "W", "X", "Y", "Z">>

\* str.upper()
Upper(str) ==
    [i \in 1..Len(str) |->
        IF \E j \in 1..26 : LowerCase[j] = str[i]
        THEN UpperCase[CHOOSE j \in 1..26 : LowerCase[j] = str[i]]
        ELSE str[i]]

\* A str where None is possible too (str | None).
Str(chars) == [t |-> "str", v |-> chars]

\* _generate_bulk_string: a str, with len(string) in characters.
GenerateBulkString(string) ==
    IF string = None THEN <<"$", "-", "1">> \o CRLF
    ELSE <<"$">> \o Dec(Len(string.v)) \o CRLF \o string.v \o CRLF

\* The str to bytes conversion of _send_response.
Encoded(resp) == Utf8Encode(resp)

PongReply == <<"+", "P", "O", "N", "G">> \o CRLF

OkReply == <<"+", "O", "K">> \o CRLF

NullReply == <<"$", "-", "1">> \o CRLF

\* bytes.fromhex(rdb_file_hex)
rdb_empty_file ==
    <<"R", "E", "D", "I", "S", "0", "0", "1", "1", "xFA", "x09", "r",
      "e", "d", "i", "s", "-", "v", "e", "r", "x05", "7", ".", "2",
      ".", "0", "xFA", "\n", "r", "e", "d", "i", "s", "-", "b", "i",
      "t", "s", "xC0", "@", "xFA", "x05", "c", "t", "i", "m", "e", "xC2",
      "m", "x08", "xBC", "e", "xFA", "x08", "u", "s", "e", "d", "-", "m",
      "e", "m", "xC2", "xB0", "xC4", "x10", "x00", "xFA", "x08", "a", "o", "f",
      "-", "b", "a", "s", "e", "xC0", "x00", "xFF", "xF0", "n", ";", "xFE",
      "xC0", "xFF", "Z", "xA2">>

-----------------------------------------------------------------------------
(* RedisServer.execute_command.  Each handler returns                      *)
(* [store, writes, exc]: the storage afterwards, the responses passed to   *)
(* _send_response in order (as bytes) and the exception raised ("" for     *)
(* none).                                                                  *)

Result(store, writes, exc) == [store |-> store, writes |-> writes, exc |-> exc]

Raise(store, exc) == Result(store, <<>>, exc)

\* RedisData(value=value, expire_at=expire_at)
RedisData(value, expire_at) == [value |-> value, expire_at |-> expire_at]

\* self._redis_storage[key] = data
StoreSet(store, key, data) ==
    [k \in (DOMAIN store) \cup {key} |-> IF k = key THEN data ELSE store[k]]

\* StoreGet with the fault of an empty entry for a key that is absent.
StoreGetEmpty(store, key) ==
    IF key \in DOMAIN store THEN store[key] ELSE [value |-> <<>>, expire_at |-> None]

\* self._redis_storage.get(key)
StoreGet(store, key) == IF key \in DOMAIN store THEN store[key] ELSE None

\* time.time() + (int(expire_in_ms_str) / 1000), in milliseconds
ExpireAt(t, ms) == [t |-> "float", v |-> t + ms]

\* IsExpired with the fault of never reporting an entry expired.
IsExpiredNever(data, t) == FALSE

\* redis_data.expire_at is not None and time.time() > redis_data.expire_at
IsExpired(data, t) == data.expire_at # None /\ t > data.expire_at.v

ExecPing(args, store, t) == Result(store, <<PongReply>>, "")

ExecEcho(args, store, t) ==
    IF args = <<>> THEN Raise(store, "IndexError")
    ELSE Result(store, <<Encoded(GenerateBulkString(Str(args[1])))>>, "")

\* ExecSet with the fault of a two-argument SET that keeps the expiry of the
\* entry it replaces.
ExecSetKeepsExpiry(args, store, t) ==
    IF Len(args) = 2
    THEN Result(StoreSet(store, args[1],
                         RedisData(args[2], IF args[1] \in DOMAIN store
                                            THEN store[args[1]].expire_at ELSE None)),
                <<OkReply>>, "")
    ELSE IF Len(args) = 4
    THEN IF Upper(args[3]) # S_PX THEN Raise(store, "RedisCommandError")
         ELSE IF ~ParseInt(args[4]).ok THEN Raise(store, "ValueError")
         ELSE Result(StoreSet(store, args[1],
                              RedisData(args[2], ExpireAt(t, ParseInt(args[4]).v))),
                     <<OkReply>>, "")
    ELSE Raise(store, "RedisCommandError")

\* ExecSet with the fault of storing the value before the arguments of the
\* expiry are checked.
ExecSetStoresFirst(args, store, t) ==
    IF Len(args) = 2
    THEN Result(StoreSet(store, args[1], RedisData(args[2], None)), <<OkReply>>, "")
    ELSE IF Len(args) = 4
    THEN IF Upper(args[3]) # S_PX
         THEN Raise(StoreSet(store, args[1], RedisData(args[2], None)), "RedisCommandError")
         ELSE IF ~ParseInt(args[4]).ok
         THEN Raise(StoreSet(store, args[1], RedisData(args[2], None)), "ValueError")
         ELSE Result(StoreSet(store, args[1],
                              RedisData(args[2], ExpireAt(t, ParseInt(args[4]).v))),
                     <<OkReply>>, "")
    ELSE Raise(store, "RedisCommandError")

ExecSet(args, store, t) ==
    IF Len(args) = 2
    THEN Result(StoreSet(store, args[1], RedisData(args[2], None)), <<OkReply>>, "")
    ELSE IF Len(args) = 4
    THEN IF Upper(args[3]) # S_PX THEN Raise(store, "RedisCommandError")
         ELSE IF ~ParseInt(args[4]).ok THEN Raise(store, "ValueError")
         ELSE Result(StoreSet(store, args[1],
                              RedisData(args[2], ExpireAt(t, ParseInt(args[4]).v))),
                     <<OkReply>>, "")
    ELSE Raise(store, "RedisCommandError")

\* ExecGet with the fault of removing the entry it finds expired.
ExecGetRemovesExpired(args, store, t) ==
    IF args = <<>> THEN Raise(store, "IndexError")
    ELSE LET redis_data == StoreGet(store, args[1])
         IN  IF redis_data = None THEN Result(store, <<NullReply>>, "")
             ELSE IF IsExpired(redis_data, t)
                  THEN Result([k \in (DOMAIN store) \ {args[1]} |-> store[k]],
                              <<NullReply>>, "")
             ELSE Result(store, <<Encoded(GenerateBulkString(Str(redis_data.value)))>>, "")

ExecGet(args, store, t) ==
    IF args = <<>> THEN Raise(store, "IndexError")
    ELSE LET redis_data == StoreGet(store, args[1])
         IN  IF redis_data = None THEN Result(store, <<NullReply>>, "")
             ELSE IF IsExpired(redis_data, t) THEN Result(store, <<NullReply>>, "")
             ELSE Result(store, <<Encoded(GenerateBulkString(Str(redis_data.value)))>>, "")

ExecDelete(args, store, t) == Result(store, <<>>, "")

ExecInfo(args, store, role) ==
    IF args = <<>> THEN Raise(store, "IndexError")
    ELSE IF args[1] = S_replication
    THEN LET ret_val ==
                 <<"r", "o", "l", "e", ":">> \o ServerRole(role) \o CRLF
                 \o <<"m", "a", "s", "t", "e", "r", "_", "r", "e", "p", "l", "i", "d", ":">>
                 \o master_replid \o CRLF
                 \o <<"m", "a", "s", "t", "e", "r", "_", "r", "e", "p", "l", "_",
                      "o", "f", "f", "s", "e", "t", ":">>
                 \o Dec(master_repl_offset) \o CRLF
         IN  Result(store, <<Encoded(GenerateBulkString(Str(ret_val)))>>, "")
    ELSE Result(store, <<>>, "")

ExecReplconf(args, store, t) == Result(store, <<OkReply>>, "")

\* ExecPsync with the fault of a CRLF written after the snapshot.
ExecPsyncTrailingCRLF(args, store, t) ==
    LET response1 == GenerateBulkString(Str(
                         <<"+", "F", "U", "L", "L", "R", "E", "S", "Y", "N", "C", " ">>
                         \o master_replid \o <<" ">> \o Dec(master_repl_offset)))
        rdb_file_response == Encoded(<<"$">> \o Dec(Len(rdb_empty_file)) \o CRLF)
                             \o rdb_empty_file \o CRLF
    IN  Result(store, <<Encoded(response1), rdb_file_response>>, "")

ExecPsync(args, store, t) ==
    LET response1 == GenerateBulkString(Str(
                         <<"+", "F", "U", "L", "L", "R", "E", "S", "Y", "N", "C", " ">>
                         \o master_replid \o <<" ">> \o Dec(master_repl_offset)))
        rdb_file_response == Encoded(<<"$">> \o Dec(Len(rdb_empty_file)) \o CRLF)
                             \o rdb_empty_file
    IN  Result(store, <<Encoded(response1), rdb_file_response>>, "")

ExecuteCommand(redis_cmd, args, store, t, role) ==
    CASE redis_cmd = "PING" -> ExecPing(args, store, t)
      [] redis_cmd = "ECHO" -> ExecEcho(args, store, t)
      [] redis_cmd = "SET" -> ExecSet(args, store, t)
      [] redis_cmd = "GET" -> ExecGet(args, store, t)
      [] redis_cmd = "DELETE" -> ExecDelete(args, store, t)
      [] redis_cmd = "INFO" -> ExecInfo(args, store, role)
      [] redis_cmd = "REPLCONF" -> ExecReplconf(args, store, t)
      [] redis_cmd = "PSYNC" -> ExecPsync(args, store, t)
      [] OTHER -> Raise(store, "RedisCommandError")

-----------------------------------------------------------------------------
(* The clients of the model: the frames one may send on a connection.      *)

\* A command framed as an array of bulk strings, each with its byte length.
RECURSIVE EncodeBulks(_)
EncodeBulks(parts) ==
    IF parts = <<>> THEN <<>>
    ELSE <<"$">> \o Dec(Len(Utf8Encode(parts[1]))) \o CRLF
         \o Utf8Encode(parts[1]) \o CRLF \o EncodeBulks(Tail(parts))

EncodeCommand(parts) == <<"*">> \o Dec(Len(parts)) \o CRLF \o EncodeBulks(parts)

ClientCommands ==
    { <<S_PING>>,
      <<S_ECHO, <<"h", "U+E9", "y">> >>,
      <<S_ECHO>>,
      <<S_SET, <<"k">>, <<"a">> >>,
      <<S_SET, <<"k">>, <<"U+E9">> >>,
      <<S_SET, <<"j">>, <<"b">> >>,
      <<S_SET, <<"k">>, <<"a">>, S_PX, <<"1">> >>,
      <<S_SET, <<"j">>, <<"U+E9">>, S_px, <<"2">> >>,
      <<S_SET, <<"k">>, <<"a">>, S_PX, <<"a", "b", "c">> >>,
      <<S_SET, <<"k">>, <<"a">>, S_EX, <<"1">> >>,
      <<S_SET, <<"k">> >>,
      <<S_SET, <<"k">>, <<"a">>, S_PX>>,
      <<S_GET, <<"k">> >>,
      <<S_GET, <<"j">> >>,
      <<S_GET, <<"n">> >>,
      <<S_GET>>,
      <<S_DELETE, <<"k">> >>,
      <<S_INFO, S_replication>>,
      <<S_INFO, S_keyspace>>,
      <<S_REPLCONF, S_capa, S_psync2>>,
      <<S_PSYNC, <<"?">>, <<"-", "1">> >>,
      <<S_FOO>> }

\* Frames that are no well-formed command: an unknown type tag, a count and
\* a length that are no numbers, and a bare simple string.
BadFrames ==
    { <<"!", "x">> \o CRLF,
      <<"*", "x">> \o CRLF,
      <<"*", "1">> \o CRLF \o <<"$", "x">> \o CRLF,
      <<"+", "P", "I", "N", "G">> \o CRLF }

Frames == {EncodeCommand(c) : c \in ClientCommands} \cup BadFrames

-----------------------------------------------------------------------------
(* RedisServer: one session per accepted connection. *)

\* The state of a RedisServer after __init__.
NewSession ==
    [eof |-> FALSE, peer |-> "up", pc |-> "await",
     cur |-> [cmd |-> "", args |-> <<>>], storage |-> <<>>, outbuf |-> <<>>,
     reply |-> <<>>, wire |-> 0, ncmd |-> 0, arrived |-> <<>>,
     fsocketOpen |-> TRUE, socketOpen |-> TRUE, lastSet |-> <<>>, nullSeen |-> {}]

Role == IF replicaof = "master" THEN "master" ELSE "slave"

RECURSIVE Concat(_)
Concat(seqs) == IF seqs = <<>> THEN <<>> ELSE seqs[1] \o Concat(Tail(seqs))

\* SendResponses with the fault of a _send_response that never flushes.
SendResponsesNoFlush(out, writes, k) ==
    [flushed |-> <<>>, out |-> out \o Concat(writes), raised |-> FALSE]

\* _send_response for each of `writes` in turn: fsocket.write appends to
\* the buffer, fsocket.flush puts the buffer on the wire.  The first k
\* flushes succeed; when k < Len(writes) the next flush raises and its
\* bytes stay in the buffer.
SendResponses(out, writes, k) ==
    [flushed |-> SubSeq(writes, 1, k),
     out |-> IF k < Len(writes) THEN out \o writes[k + 1] ELSE out,
     raised |-> k < Len(writes)]

\* fsocket.close() flushes what the buffer still holds and raises when that
\* flush fails, as it does again after a flush that has failed.
FsocketCloseRaises(out) == out # <<>>

\* The finally block of run(): fsocket.close(), then socket_conn.close(),
\* which is not reached when fsocket.close() raises.
Finally(s, out) ==
    /\ pc' = [pc EXCEPT ![s] = "closed"]
    /\ outbuf' = [outbuf EXCEPT ![s] = out]
    /\ fsocketOpen' = [fsocketOpen EXCEPT ![s] = FALSE]
    /\ socketOpen' = [socketOpen EXCEPT ![s] = FsocketCloseRaises(out)]

\* The client closes its sending side and goes on reading.
ClientShutdown(s) ==
    /\ ~eof[s]
    /\ eof' = [eof EXCEPT ![s] = TRUE]
    /\ UNCHANGED <<now, peer, pc, cur, storage, outbuf, reply, wire, ncmd, arrived,
                   fsocketOpen, socketOpen, lastSet, nullSeen, mvars>>

\* The client closes the connection: writes to it start to fail.
ClientClose(s) ==
    /\ peer[s] = "up"
    /\ eof' = [eof EXCEPT ![s] = TRUE]
    /\ peer' = [peer EXCEPT ![s] = "down"]
    /\ UNCHANGED <<now, pc, cur, storage, outbuf, reply, wire, ncmd, arrived,
                   fsocketOpen, socketOpen, lastSet, nullSeen, mvars>>

\* What the next read of the session finds on its stream: one of the frames
\* a client sends, or nothing more once the client has closed.
Arrivals(s) == IF eof[s] THEN {<<>>} ELSE Frames

\* CommandStep with the fault of a loop that goes on after an exception of
\* get_redis_command.
CommandStepContinue(s, r) ==
    /\ r.st # "block"
    /\ ncmd' = [ncmd EXCEPT ![s] = @ + 1]
    /\ IF r.st = "ok"
       THEN /\ cur' = [cur EXCEPT ![s] = r.val]
            /\ pc' = [pc EXCEPT ![s] = "dispatch"]
       ELSE UNCHANGED <<cur, pc>>
    /\ UNCHANGED <<outbuf, fsocketOpen, socketOpen>>

\* The outcome r of get_redis_command in run(): a command to dispatch, or
\* an exception, which ends the loop through the except clauses and the
\* finally block.
CommandStep(s, r) ==
    /\ r.st # "block"
    /\ ncmd' = [ncmd EXCEPT ![s] = @ + 1]
    /\ IF r.st = "ok"
       THEN /\ cur' = [cur EXCEPT ![s] = r.val]
            /\ pc' = [pc EXCEPT ![s] = "dispatch"]
            /\ UNCHANGED <<outbuf, fsocketOpen, socketOpen>>
       ELSE /\ Finally(s, outbuf[s])
            /\ UNCHANGED cur

\* run(): redis_cmd, args = self.command_parser.get_redis_command(), which
\* blocks until the client's next frame f has arrived.
GetRedisCommand(s) ==
    /\ pc[s] = "await"
    /\ ncmd[s] < MaxCmds
    /\ \E f \in Arrivals(s) :
         /\ arrived' = [arrived EXCEPT ![s] = f]
         /\ CommandStep(s, GetCommand(f, eof[s]))
    /\ UNCHANGED <<now, eof, peer, storage, reply, wire, lastSet, nullSeen, mvars>>

\* The history of the SETs and GETs of a session, kept for the properties:
\* per key the value of the latest SET that stored an entry, when it had a
\* PX the time t + ms at which its entry expires, and that time of the entry
\* it replaced (over), None when there was no entry or no such time.
SetRecord(args, t, over) ==
    [value |-> args[2],
     deadline |-> IF Len(args) = 4 THEN [t |-> "float", v |-> t + ParseInt(args[4]).v]
                  ELSE None,
     over |-> over]

LastSetAfter(hist, c, r, t) ==
    IF c.cmd = "SET" /\ r.exc = ""
    THEN [k \in (DOMAIN hist) \cup {c.args[1]} |->
             IF k = c.args[1]
             THEN SetRecord(c.args, t,
                            IF c.args[1] \in DOMAIN hist THEN hist[c.args[1]].deadline
                            ELSE None)
             ELSE hist[k]]
    ELSE hist

\* The keys whose present entry a GET has answered with the null reply.
NullSeenAfter(seen, hist, c, r, flushed) ==
    IF c.cmd = "SET" /\ r.exc = "" THEN seen \ {c.args[1]}
    ELSE IF /\ c.cmd = "GET" /\ r.exc = "" /\ flushed = <<NullReply>>
            /\ c.args[1] \in DOMAIN hist
         THEN seen \cup {c.args[1]}
    ELSE seen

\* SendStep with the fault of one storage that every session writes.
SendStepSharedStorage(s, r, w) ==
    /\ w.raised => peer[s] = "down"
    /\ storage' = [x \in DOMAIN storage |-> r.store]
    /\ reply' = [reply EXCEPT ![s] = w.flushed]
    /\ wire' = [wire EXCEPT ![s] = IF w.flushed = <<>> THEN @ ELSE ncmd[s]]
    /\ lastSet' = [lastSet EXCEPT ![s] = LastSetAfter(@, cur[s], r, now)]
    /\ nullSeen' = [nullSeen EXCEPT ![s] = NullSeenAfter(@, lastSet[s], cur[s], r, w.flushed)]
    /\ IF r.exc # "" \/ w.raised
       THEN Finally(s, w.out)
       ELSE /\ pc' = [pc EXCEPT ![s] = "await"]
            /\ outbuf' = [outbuf EXCEPT ![s] = w.out]
            /\ UNCHANGED <<fsocketOpen, socketOpen>>

\* The end of execute_command with outcome r, its responses sent with
\* outcome w: back to the head of the loop in run(), or out of it through
\* the except clauses and the finally block.
SendStep(s, r, w) ==
    /\ w.raised => peer[s] = "down"
    /\ storage' = [storage EXCEPT ![s] = r.store]
    /\ reply' = [reply EXCEPT ![s] = w.flushed]
    /\ wire' = [wire EXCEPT ![s] = IF w.flushed = <<>> THEN @ ELSE ncmd[s]]
    /\ lastSet' = [lastSet EXCEPT ![s] = LastSetAfter(@, cur[s], r, now)]
    /\ nullSeen' = [nullSeen EXCEPT ![s] = NullSeenAfter(@, lastSet[s], cur[s], r, w.flushed)]
    /\ IF r.exc # "" \/ w.raised
       THEN Finally(s, w.out)
       ELSE /\ pc' = [pc EXCEPT ![s] = "await"]
            /\ outbuf' = [outbuf EXCEPT ![s] = w.out]
            /\ UNCHANGED <<fsocketOpen, socketOpen>>

ExecuteStep(s, r) ==
    \E k \in 0..Len(r.writes) : SendStep(s, r, SendResponses(outbuf[s], r.writes, k))

\* run(): self.execute_command(redis_cmd, args)
RunExecuteCommand(s) ==
    /\ pc[s] = "dispatch"
    /\ ExecuteStep(s, ExecuteCommand(cur[s].cmd, cur[s].args, storage[s], now, Role))
    /\ UNCHANGED <<now, eof, peer, cur, ncmd, arrived, mvars>>

\* Time passes.
Tick ==
    /\ now < MaxTime
    /\ now' = now + 1
    /\ UNCHANGED <<svars, mvars>>

-----------------------------------------------------------------------------
(* main() and perform_handshake_with_master(). *)

Ports == {80, 6379, 6380, 16379}

\* The values of --replicaof in the model: the default, a host and a port,
\* a host alone, and a port that is no number.
Replicas == {"master", "localhost 6379", "localhost", "localhost abc"}

S_localhost == <<"l", "o", "c", "a", "l", "h", "o", "s", "t">>

\* args.replicaof.split()
Split(arg) ==
    CASE arg = "localhost 6379" -> <<S_localhost, <<"6", "3", "7", "9">> >>
      [] arg = "localhost abc" -> <<S_localhost, <<"a", "b", "c">> >>
      [] arg = "localhost" -> <<S_localhost>>
      [] arg = "master" -> << <<"m", "a", "s", "t", "e", "r">> >>

\* master_host, master_port = args.replicaof.split() and int(master_port)
\* both succeed.
ReplicaTargetOk(arg) == Len(Split(arg)) = 2 /\ ParseInt(Split(arg)[2]).ok

\* What one readline() on the connection to the master may return: the
\* expected replies, an error reply, a reply cut short by the end of the
\* stream, and the empty line of a closed connection.
MasterLines ==
    { <<"+", "P", "O", "N", "G">> \o CRLF,
      <<"+", "O", "K">> \o CRLF,
      <<"-", "E", "R", "R">> \o CRLF,
      <<"+", "O", "K">>,
      <<>> }

PingFrame == <<"*", "1">> \o CRLF \o <<"$", "4">> \o CRLF \o S_PING \o CRLF

ReplconfPortFrame(port) ==
    <<"*", "3">> \o CRLF \o <<"$", "8">> \o CRLF \o S_REPLCONF \o CRLF
    \o <<"$", "1", "4">> \o CRLF \o S_listening_port \o CRLF
    \o <<"$">> \o Dec(Len(Dec(port))) \o CRLF \o Dec(port) \o CRLF

ReplconfCapaFrame ==
    <<"*", "3">> \o CRLF \o <<"$", "8">> \o CRLF \o S_REPLCONF \o CRLF
    \o <<"$", "4">> \o CRLF \o S_capa \o CRLF
    \o <<"$", "6">> \o CRLF \o S_psync2 \o CRLF

PsyncFrame ==
    <<"*", "3">> \o CRLF \o <<"$", "5">> \o CRLF \o S_PSYNC \o CRLF
    \o <<"$", "1">> \o CRLF \o <<"?">> \o CRLF
    \o <<"$", "2">> \o CRLF \o <<"-", "1">> \o CRLF

\* MainStart with the fault of a replica that skips the handshake.
MainStartNoHandshake ==
    /\ mpc = "start"
    /\ mpc' = IF replicaof = "master" \/ ReplicaTargetOk(replicaof)
              THEN "create_server" ELSE "failed"
    /\ UNCHANGED <<now, svars, replicaof, redis_port, toMaster, response, listening,
                   backlog, accepted>>

\* main() up to the server socket: a master goes on to create it, a
\* replica calls perform_handshake_with_master, which connects and writes
\* the PING; a --replicaof that is no host and port raises.
MainStart ==
    /\ mpc = "start"
    /\ IF replicaof = "master"
       THEN /\ mpc' = "create_server"
            /\ UNCHANGED toMaster
       ELSE IF ~ReplicaTargetOk(replicaof)
       THEN /\ mpc' = "failed"
            /\ UNCHANGED toMaster
       ELSE /\ mpc' = "read_pong"
            /\ toMaster' = Append(toMaster, PingFrame)
    /\ UNCHANGED <<now, svars, replicaof, redis_port, response, listening, backlog,
                   accepted>>

\* HandshakeStep with the fault of going on whatever the reply is.
HandshakeStepNoCheck(at, expected, frame, next) ==
    /\ mpc = at
    /\ \E line \in MasterLines : response' = RStripCRLF(line)
    /\ mpc' = next
    /\ toMaster' = Append(toMaster, frame)
    /\ UNCHANGED <<now, svars, replicaof, redis_port, listening, backlog, accepted>>

\* One step of the handshake: read a line, compare it with `expected`, and
\* either raise or write `frame` and go on at `next`.
HandshakeStep(at, expected, frame, next) ==
    /\ mpc = at
    /\ \E line \in MasterLines :
         /\ response' = RStripCRLF(line)
         /\ IF response' # expected
            THEN /\ mpc' = "failed"
                 /\ UNCHANGED toMaster
            ELSE /\ mpc' = next
                 /\ toMaster' = Append(toMaster, frame)
    /\ UNCHANGED <<now, svars, replicaof, redis_port, listening, backlog, accepted>>

HandshakeReadPong ==
    HandshakeStep("read_pong", <<"+", "P", "O", "N", "G">>,
                  ReplconfPortFrame(redis_port), "read_ok1")

HandshakeReadOk1 ==
    HandshakeStep("read_ok1", <<"+", "O", "K">>, ReplconfCapaFrame, "read_ok2")

HandshakeReadOk2 ==
    HandshakeStep("read_ok2", <<"+", "O", "K">>, PsyncFrame, "create_server")

\* socket.create_server(("localhost", redis_port), reuse_port=True)
CreateServer ==
    /\ mpc = "create_server"
    /\ mpc' = "accept"
    /\ listening' = TRUE
    /\ UNCHANGED <<now, svars, replicaof, redis_port, toMaster, response, backlog,
                   accepted>>

\* A client connects to the listening socket.
ClientConnect ==
    /\ listening
    /\ backlog + accepted < MaxConns
    /\ backlog' = backlog + 1
    /\ UNCHANGED <<now, svars, mpc, replicaof, redis_port, toMaster, response, listening,
                   accepted>>

\* The accept loop: connection, _ = server_socket.accept();
\* RedisServer(connection, role).start()
Accept ==
    /\ mpc = "accept"
    /\ backlog > 0
    /\ backlog' = backlog - 1
    /\ accepted' = accepted + 1
    /\ LET s == accepted + 1
           add(f, x) == [i \in (DOMAIN f) \cup {s} |-> IF i = s THEN x ELSE f[i]]
       IN  /\ eof' = add(eof, NewSession.eof)
           /\ peer' = add(peer, NewSession.peer)
           /\ pc' = add(pc, NewSession.pc)
           /\ cur' = add(cur, NewSession.cur)
           /\ storage' = add(storage, NewSession.storage)
           /\ outbuf' = add(outbuf, NewSession.outbuf)
           /\ reply' = add(reply, NewSession.reply)
           /\ wire' = add(wire, NewSession.wire)
           /\ ncmd' = add(ncmd, NewSession.ncmd)
           /\ arrived' = add(arrived, NewSession.arrived)
           /\ fsocketOpen' = add(fsocketOpen, NewSession.fsocketOpen)
           /\ socketOpen' = add(socketOpen, NewSession.socketOpen)
           /\ lastSet' = add(lastSet, NewSession.lastSet)
           /\ nullSeen' = add(nullSeen, NewSession.nullSeen)
    /\ UNCHANGED <<now, mpc, replicaof, redis_port, toMaster, response, listening>>

-----------------------------------------------------------------------------
(* Specifications. *)

\* The frames a replica has written when its handshake has returned.
HandshakeFrames(port) ==
    <<PingFrame, ReplconfPortFrame(port), ReplconfCapaFrame, PsyncFrame>>

\* The decoder's stream is not part of these specifications.
NoStream ==
    /\ stream = <<>> /\ streamClosed = FALSE /\ sent = <<>>
    /\ decoded = Block(<<>>) /\ ndec = 0

\* One session, on the first connection a running server has accepted.
Init ==
    /\ now = 0
    /\ eof = <<NewSession.eof>>
    /\ peer = <<NewSession.peer>>
    /\ pc = <<NewSession.pc>>
    /\ cur = <<NewSession.cur>>
    /\ storage = <<NewSession.storage>>
    /\ outbuf = <<NewSession.outbuf>>
    /\ reply = <<NewSession.reply>>
    /\ wire = <<NewSession.wire>>
    /\ ncmd = <<NewSession.ncmd>>
    /\ arrived = <<NewSession.arrived>>
    /\ fsocketOpen = <<NewSession.fsocketOpen>>
    /\ socketOpen = <<NewSession.socketOpen>>
    /\ lastSet = <<NewSession.lastSet>>
    /\ nullSeen = <<NewSession.nullSeen>>
    /\ mpc = "accept"
    /\ replicaof \in {"master", "localhost 6379"}
    /\ redis_port = 6380
    /\ toMaster = IF replicaof = "master" THEN <<>> ELSE HandshakeFrames(redis_port)
    /\ response = IF replicaof = "master" THEN <<>> ELSE <<"+", "O", "K">>
    /\ listening = TRUE
    /\ backlog = 0
    /\ accepted = 1
    /\ NoStream

Next ==
    \/ Tick /\ UNCHANGED dvars
    \/ \E s \in DOMAIN pc : ClientShutdown(s) /\ UNCHANGED dvars
    \/ \E s \in DOMAIN pc : ClientClose(s) /\ UNCHANGED dvars
    \/ \E s \in DOMAIN pc : GetRedisCommand(s) /\ UNCHANGED dvars
    \/ \E s \in DOMAIN pc : RunExecuteCommand(s) /\ UNCHANGED dvars

Spec == Init /\ [][Next]_vars

\* The process from its start: main() with the handshake and the accept loop.
InitMain ==
    /\ now = 0
    /\ eof = <<>> /\ peer = <<>> /\ pc = <<>> /\ cur = <<>>
    /\ storage = <<>> /\ outbuf = <<>> /\ reply = <<>> /\ wire = <<>>
    /\ ncmd = <<>> /\ arrived = <<>> /\ fsocketOpen = <<>> /\ socketOpen = <<>>
    /\ lastSet = <<>> /\ nullSeen = <<>>
    /\ mpc = "start"
    /\ replicaof \in Replicas
    /\ redis_port \in Ports
    /\ toMaster = <<>>
    /\ response = <<>>
    /\ listening = FALSE
    /\ backlog = 0
    /\ accepted = 0
    /\ NoStream

NextMain ==
    \/ MainStart /\ UNCHANGED dvars
    \/ HandshakeReadPong /\ UNCHANGED dvars
    \/ HandshakeReadOk1 /\ UNCHANGED dvars
    \/ HandshakeReadOk2 /\ UNCHANGED dvars
    \/ CreateServer /\ UNCHANGED dvars
    \/ ClientConnect /\ UNCHANGED dvars
    \/ Accept /\ UNCHANGED dvars

SpecMain == InitMain /\ [][NextMain]_vars

\* Two sessions of one master, on two connections accepted one after the
\* other: main() starts a RedisServer thread for each.
InitPair ==
    /\ now = 0
    /\ eof = [s \in 1..2 |-> NewSession.eof]
    /\ peer = [s \in 1..2 |-> NewSession.peer]
    /\ pc = [s \in 1..2 |-> NewSession.pc]
    /\ cur = [s \in 1..2 |-> NewSession.cur]
    /\ storage = [s \in 1..2 |-> NewSession.storage]
    /\ outbuf = [s \in 1..2 |-> NewSession.outbuf]
    /\ reply = [s \in 1..2 |-> NewSession.reply]
    /\ wire = [s \in 1..2 |-> NewSession.wire]
    /\ ncmd = [s \in 1..2 |-> NewSession.ncmd]
    /\ arrived = [s \in 1..2 |-> NewSession.arrived]
    /\ fsocketOpen = [s \in 1..2 |-> NewSession.fsocketOpen]
    /\ socketOpen = [s \in 1..2 |-> NewSession.socketOpen]
    /\ lastSet = [s \in 1..2 |-> NewSession.lastSet]
    /\ nullSeen = [s \in 1..2 |-> NewSession.nullSeen]
    /\ mpc = "accept"
    /\ replicaof = "master"
    /\ redis_port = 6379
    /\ toMaster = <<>>
    /\ response = <<>>
    /\ listening = TRUE
    /\ backlog = 0
    /\ accepted = 2
    /\ NoStream

\* What the two clients send: SETs of one key with two values, a GET of it
\* and a command the server rejects; <<>> is the end of the stream.
PairFrames ==
    { EncodeCommand(<<S_SET, <<"k">>, <<"a">> >>),
      EncodeCommand(<<S_SET, <<"k">>, <<"U+E9">> >>),
      EncodeCommand(<<S_GET, <<"k">> >>),
      EncodeCommand(<<S_FOO>>),
      <<>> }

\* The threads run in any interleaving; each client sends at most
\* MaxPairCmds frames.
NextPair ==
    \/ \E s \in DOMAIN pc : ClientShutdown(s) /\ UNCHANGED dvars
    \/ \E s \in DOMAIN pc : ClientClose(s) /\ UNCHANGED dvars
    \/ \E s \in DOMAIN pc :
          /\ ncmd[s] < MaxPairCmds
          /\ GetRedisCommand(s)
          /\ arrived'[s] \in PairFrames
          /\ UNCHANGED dvars
    \/ \E s \in DOMAIN pc : RunExecuteCommand(s) /\ UNCHANGED dvars

SpecPair == InitPair /\ [][NextPair]_vars

-----------------------------------------------------------------------------
(* The decoder on its own: a stream of frames read with successive calls   *)
(* of _parse_resp_input_data.  A frame is described by its kind k and its *)
(* content: text v, a number n, elements e, or a str | None s.           *)

SimpleFrame(v) == [k |-> "simple", v |-> v]
ErrorFrame(v) == [k |-> "error", v |-> v]
IntegerFrame(n) == [k |-> "int", n |-> n]
BulkFrame(v) == [k |-> "bulk", v |-> v]
ArrayFrame(elements) == [k |-> "arr", e |-> elements]
\* An array with the count -1.
NegativeArrayFrame == [k |-> "arrneg", n |-> 0 - 1]
\* A bulk string with the length -1.
NullBulkFrame == [k |-> "null", n |-> 0 - 1]
\* What the server itself writes for a str or None: _generate_bulk_string,
\* encoded by _send_response.
GeneratedFrame(string) == [k |-> "gen", s |-> string]

\* The bytes of a frame on the stream.
RECURSIVE FrameBytes(_)
RECURSIVE FramesBytes(_)
FrameBytes(d) ==
    CASE d.k = "simple" -> <<"+">> \o Utf8Encode(d.v) \o CRLF
      [] d.k = "error" -> <<"-">> \o Utf8Encode(d.v) \o CRLF
      [] d.k = "int" -> <<":">> \o Dec(d.n) \o CRLF
      [] d.k = "bulk" -> <<"$">> \o Dec(Len(Utf8Encode(d.v))) \o CRLF
                         \o Utf8Encode(d.v) \o CRLF
      [] d.k = "arr" -> <<"*">> \o Dec(Len(d.e)) \o CRLF \o FramesBytes(d.e)
      [] d.k = "arrneg" -> <<"*">> \o Dec(d.n) \o CRLF
      [] d.k = "null" -> <<"$">> \o Dec(d.n) \o CRLF
      [] d.k = "gen" -> Encoded(GenerateBulkString(d.s))

FramesBytes(ds) == IF ds = <<>> THEN <<>> ELSE FrameBytes(ds[1]) \o FramesBytes(Tail(ds))

\* The value a frame stands for, tagged as the decoder tags its values.
RECURSIVE FrameValue(_)
FrameValue(d) ==
    CASE d.k \in {"simple", "bulk"} -> [t |-> "str", v |-> d.v]
      [] d.k = "error" -> [t |-> "error", v |-> d.v]
      [] d.k = "int" -> [t |-> "int", v |-> d.n]
      [] d.k = "arr" -> [t |-> "arr", v |-> [i \in 1..Len(d.e) |-> FrameValue(d.e[i])]]
      [] d.k = "arrneg" -> [t |-> "arr", v |-> <<>>]
      [] d.k = "null" -> None
      [] d.k = "gen" -> IF d.s = None THEN None ELSE [t |-> "str", v |-> d.s.v]

\* Equality of two tagged values.
RECURSIVE SameValue(_, _)
SameValue(a, b) ==
    /\ a.t = b.t
    /\ CASE a.t = "none" -> TRUE
         [] a.t = "arr" -> /\ Len(a.v) = Len(b.v)
                           /\ \A i \in 1..Len(a.v) : SameValue(a.v[i], b.v[i])
         [] OTHER -> a.v = b.v

\* The frames the streams of the model are made of.
StreamFrames ==
    { SimpleFrame(<<"O", "K">>),
      SimpleFrame(<<"h", "U+E9">>),
      ErrorFrame(<<"E", "R", "R">>),
      IntegerFrame(42),
      IntegerFrame(0 - 7),
      BulkFrame(<<>>),
      BulkFrame(<<"a">>),
      BulkFrame(<<"U+E9">>),
      BulkFrame(<<"a", "\r", "\n", "b">>),
      ArrayFrame(<<>>),
      ArrayFrame(<<BulkFrame(<<"a">>), IntegerFrame(42)>>),
      ArrayFrame(<<ArrayFrame(<<BulkFrame(<<"U+E9">>)>>), SimpleFrame(<<"O", "K">>)>>),
      NegativeArrayFrame,
      NullBulkFrame,
      GeneratedFrame(Str(<<>>)),
      GeneratedFrame(Str(<<"a">>)),
      GeneratedFrame(Str(<<"a", "\r", "\n", "b">>)),
      GeneratedFrame(Str(<<"U+E9">>)),
      GeneratedFrame(None) }

\* The session's variables are not part of this specification.
NoSession ==
    /\ now = 0
    /\ eof = <<>> /\ peer = <<>> /\ pc = <<>> /\ cur = <<>>
    /\ storage = <<>> /\ outbuf = <<>> /\ reply = <<>> /\ wire = <<>>
    /\ ncmd = <<>> /\ arrived = <<>> /\ fsocketOpen = <<>> /\ socketOpen = <<>>
    /\ lastSet = <<>> /\ nullSeen = <<>>
    /\ mpc = "accept" /\ replicaof = "master" /\ redis_port = 6379
    /\ toMaster = <<>> /\ response = <<>>
    /\ listening = TRUE /\ backlog = 0 /\ accepted = 0

\* A stream of one to MaxFrames frames, all of them sent, the peer still
\* connected.
InitDecode ==
    /\ NoSession
    /\ sent \in UNION {[1..m -> StreamFrames] : m \in 1..MaxFrames}
    /\ stream = FramesBytes(sent)
    /\ streamClosed = FALSE
    /\ decoded = Block(<<>>)
    /\ ndec = 0

\* The outcome r of a call that does not block.
ParseStepOf(r) ==
    /\ r.st # "block"
    /\ decoded' = r
    /\ stream' = r.rest
    /\ ndec' = ndec + 1
    /\ UNCHANGED <<now, svars, mvars, streamClosed, sent>>

\* One call of _parse_resp_input_data; none after one that raised.
ParseStep ==
    /\ decoded.st # "exc"
    /\ ParseStepOf(ParseRespInputData(stream, streamClosed))

\* The peer closes the connection: reads no longer block.
StreamClose ==
    /\ ~streamClosed
    /\ streamClosed' = TRUE
    /\ UNCHANGED <<now, svars, mvars, stream, sent, decoded, ndec>>

NextDecode ==
    \/ ParseStep
    \/ StreamClose

SpecDecode == InitDecode /\ [][NextDecode]_vars

-----------------------------------------------------------------------------
(* Properties. *)

\* Session s has executed a command `name` and is back at the head of its loop.
AfterCommand(s, name) == pc[s] = "await" /\ cur[s].cmd = name

\* Session s leaves execute_command in this step.
Executes(s) == pc[s] = "dispatch" /\ pc'[s] # "dispatch"

\* The bulk string of a value v: its length in bytes, then its bytes.
BulkStringFrame(v) == EncodeBulks(<<v>>)

\* A bulk string whose content is the value v, whatever length it declares.
Carries(frame, v) ==
    \E n \in 0..Len(Utf8Encode(v)) :
        frame = <<"$">> \o Dec(n) \o CRLF \o Utf8Encode(v) \o CRLF

\* C1: a GET of a key whose latest SET had two arguments is answered with
\* the bulk string of that SET's value, whatever was set before it, and a
\* two-argument SET, also one that overwrites, is answered with +OK.
C1_GetReturnsLastSet ==
    \A s \in DOMAIN pc :
        /\ ( /\ AfterCommand(s, "GET")
             /\ cur[s].args[1] \in DOMAIN lastSet[s]
             /\ lastSet[s][cur[s].args[1]].deadline = None )
           => reply[s] = <<BulkStringFrame(lastSet[s][cur[s].args[1]].value)>>
        /\ (AfterCommand(s, "SET") /\ Len(cur[s].args) = 2) => reply[s] = <<OkReply>>

ArgumentError(c) ==
    \/ c.cmd = "SET" /\ Len(c.args) \notin {2, 4}
    \/ c.cmd = "SET" /\ Len(c.args) = 4 /\ Upper(c.args[3]) # S_PX
    \/ c.cmd = "SET" /\ Len(c.args) = 4 /\ ~ParseInt(c.args[4]).ok
    \/ c.cmd \in {"GET", "ECHO"} /\ c.args = <<>>

\* C3: a command rejected for its arguments is answered with an error reply
\* and the session goes on with the next command.
C3_ErrorReplyKeepsOpen ==
    [][\A s \in DOMAIN pc :
          (Executes(s) /\ ArgumentError(cur[s]) /\ peer[s] = "up")
          => /\ pc'[s] = "await"
             /\ Len(reply'[s]) = 1
             /\ reply'[s][1][1] = "-"]_vars

\* C4: a GET of a key no SET has stored is answered with the null bulk
\* string and the session stays open.
C4_GetNeverSet ==
    [][\A s \in DOMAIN pc :
          ( /\ Executes(s) /\ cur[s].cmd = "GET" /\ cur[s].args # <<>>
            /\ cur[s].args[1] \notin DOMAIN lastSet[s]
            /\ peer[s] = "up" )
          => pc'[s] = "await" /\ reply'[s] = <<NullReply>>]_vars

\* A GET of the key n, which no command sets, answered after a SET of
\* another key.
C4_Witness ==
    \E s \in DOMAIN pc :
        /\ AfterCommand(s, "GET") /\ cur[s].args = << <<"n">> >>
        /\ DOMAIN lastSet[s] # {}
        /\ reply[s] = <<NullReply>>

\* C5: a closed session has closed its file object and its socket.
C5_ClosedReleasesBoth ==
    \A s \in DOMAIN pc : pc[s] = "closed" => ~fsocketOpen[s] /\ ~socketOpen[s]

\* The frames whose decoding fails: nothing to read for the type tag, an
\* unknown type tag, a count line and a length line that are no numbers.
DecodeErrorFrames ==
    { <<>>,
      <<"!", "x">> \o CRLF,
      <<"*", "x">> \o CRLF,
      <<"*", "1">> \o CRLF \o <<"$", "x">> \o CRLF }

\* C6: when get_redis_command reads a frame whose decoding fails, the
\* session closes and writes nothing, and a closed session reads, executes
\* and writes nothing more.
C6_DecodeFailureCloses ==
    [][\A s \in DOMAIN pc :
          /\ (ncmd'[s] # ncmd[s] /\ arrived'[s] \in DecodeErrorFrames)
             => /\ pc'[s] = "closed"
                /\ wire'[s] = wire[s] /\ reply'[s] = reply[s] /\ outbuf'[s] = outbuf[s]
          /\ pc[s] = "closed"
             => /\ pc'[s] = "closed" /\ ncmd'[s] = ncmd[s] /\ cur'[s] = cur[s]
                /\ wire'[s] = wire[s] /\ reply'[s] = reply[s]
                /\ storage'[s] = storage[s]]_vars

\* A session closed by the end of the stream after it has answered a command.
C6_Witness ==
    \E s \in DOMAIN pc :
        /\ pc[s] = "closed" /\ eof[s] /\ arrived[s] = <<>>
        /\ ncmd[s] = 2 /\ wire[s] = 1

\* C7: the responses of a command are all flushed before the next command
\* is read, and no response is written for a command before the responses
\* of the commands read before it.
C7_RepliesInOrder ==
    \A s \in DOMAIN pc :
        /\ wire[s] <= ncmd[s]
        /\ pc[s] = "dispatch" => wire[s] < ncmd[s]
        /\ pc[s] \in {"await", "dispatch"} => outbuf[s] = <<>>
        /\ AfterCommand(s, "PSYNC") => Len(reply[s]) = 2 /\ wire[s] = ncmd[s]

\* The second command has been read after both writes of a PSYNC.
C7_Witness ==
    \E s \in DOMAIN pc :
        /\ pc[s] = "dispatch" /\ ncmd[s] = 2 /\ wire[s] = 1
        /\ Len(reply[s]) = 2 /\ outbuf[s] = <<>>

\* The commands of the handshake, in order, for a replica listening on `port`.
HandshakeCommands(port) ==
    << <<S_PING>>,
       <<S_REPLCONF, S_listening_port, Dec(port)>>,
       <<S_REPLCONF, S_capa, S_psync2>>,
       <<S_PSYNC, <<"?">>, <<"-", "1">> >> >>

\* The array of bulk strings a frame decodes to when it carries `parts`.
ArrayOfStrings(parts) ==
    [t |-> "arr", v |-> [j \in 1..Len(parts) |-> [t |-> "str", v |-> parts[j]]]]

\* The replies the first three commands of the handshake wait for.
HandshakeReplies ==
    << <<"+", "P", "O", "N", "G">>, <<"+", "O", "K">>, <<"+", "O", "K">> >>

ReadStates == <<"read_pong", "read_ok1", "read_ok2">>

C8_Order ==
    /\ Len(toMaster) <= 4
    /\ \A i \in 1..Len(toMaster) :
          ParseRespInputData(toMaster[i], TRUE)
             = Ok(ArrayOfStrings(HandshakeCommands(redis_port)[i]), <<>>)
    /\ \A i \in 1..3 : Len(toMaster) = i => mpc \in {ReadStates[i], "failed"}
    /\ Len(toMaster) = 4 => mpc \in {"create_server", "accept"}

C8_Step ==
    Len(toMaster') # Len(toMaster) /\ toMaster # <<>>
    => /\ Len(toMaster') = Len(toMaster) + 1
       /\ mpc = ReadStates[Len(toMaster)]
       /\ response' = HandshakeReplies[Len(toMaster)]

\* C8: the replica writes PING, REPLCONF listening-port <port>, REPLCONF
\* capa psync2 and PSYNC ? -1 in this order, reads one line after each of
\* the first three, writes the next only when that line is the expected
\* reply, and reads nothing after the PSYNC.
C8_HandshakeOrder == []C8_Order /\ [][C8_Step]_vars

\* The handshake has written all four commands.
C8_Witness == Len(toMaster) = 4 /\ mpc = "create_server" /\ response = <<"+", "O", "K">>

C9_State ==
    /\ replicaof = "master" => toMaster = <<>>
    /\ (replicaof # "master" /\ (listening \/ backlog > 0 \/ accepted > 0 \/ DOMAIN pc # {}))
       => Len(toMaster) = 4
    /\ mpc = "failed" => ~listening /\ accepted = 0 /\ DOMAIN pc = {}
    /\ Len(toMaster) <= 4

C9_Step ==
    /\ mpc = "failed" => UNCHANGED mvars
    /\ \A i \in 1..3 :
          (mpc = ReadStates[i] /\ response' # HandshakeReplies[i])
          => mpc' = "failed" /\ toMaster' = toMaster

\* C9: a replica creates its listening socket and accepts connections only
\* after the whole handshake; a reply that is not the expected one ends the
\* start-up with nothing more sent and nothing accepted; a master sends
\* nothing.
C9_HandshakeBeforeServing == []C9_State /\ [][C9_Step]_vars

\* The handshake has failed at its second step on the empty line of a
\* closed connection.
C9_Witness == mpc = "failed" /\ response = <<>> /\ Len(toMaster) = 2

\* C10: PSYNC is answered with two writes, the simple string +FULLRESYNC
\* <replication id> <offset> and then the snapshot as a bulk string.
C10_PsyncWrites ==
    \A s \in DOMAIN pc :
        AfterCommand(s, "PSYNC")
        => /\ Len(reply[s]) = 2
           /\ reply[s][1] = <<"+", "F", "U", "L", "L", "R", "E", "S", "Y", "N", "C", " ">>
                            \o master_replid \o <<" ">> \o Dec(master_repl_offset) \o CRLF
           /\ reply[s][2] = <<"$">> \o Dec(Len(rdb_empty_file)) \o CRLF \o rdb_empty_file

\* The length line of a frame that starts with a type tag, and what follows it.
LengthLine(frame) == ReadLine(Tail(frame), TRUE)

\* C11: the second write of a PSYNC reply is '$', the decimal count of the
\* snapshot's bytes, CRLF and then exactly that many bytes, the snapshot,
\* with nothing after them.
C11_PsyncLength ==
    \A s \in DOMAIN pc :
        AfterCommand(s, "PSYNC")
        => /\ Len(reply[s]) = 2
           /\ reply[s][2][1] = "$"
           /\ LET l == LengthLine(reply[s][2])
                  n == ParseInt(RStripCRLF(l.data))
              IN  /\ SubSeq(l.data, Len(l.data) - 1, Len(l.data)) = CRLF
                  /\ n.ok /\ n.v = Len(l.rest)
                  /\ l.rest = rdb_empty_file

\* A PSYNC answered as the second command of a session.
C11_Witness ==
    \E s \in DOMAIN pc :
        /\ AfterCommand(s, "PSYNC") /\ ncmd[s] = 2 /\ wire[s] = 2
        /\ Len(reply[s]) = 2 /\ Len(reply[s][2]) = 5 + Len(rdb_empty_file)

\* The three lines of the replication section, joined by CRLF, for a role.
InfoReplicationText(role) ==
    <<"r", "o", "l", "e", ":">>
    \o (IF role = "master" THEN <<"M", "A", "S", "T", "E", "R">>
        ELSE <<"S", "L", "A", "V", "E">>)
    \o CRLF
    \o <<"m", "a", "s", "t", "e", "r", "_", "r", "e", "p", "l", "i", "d", ":">>
    \o master_replid \o CRLF
    \o <<"m", "a", "s", "t", "e", "r", "_", "r", "e", "p", "l", "_",
         "o", "f", "f", "s", "e", "t", ":">>
    \o Dec(master_repl_offset)

\* C12: INFO replication is answered with one bulk string whose content is
\* the lines role:MASTER or role:SLAVE, master_replid:<id> and
\* master_repl_offset:<offset> joined by CRLF, with its length in bytes.
C12_InfoReplication ==
    \A s \in DOMAIN pc :
        (AfterCommand(s, "INFO") /\ cur[s].args = <<S_replication>>)
        => reply[s] = <<BulkStringFrame(InfoReplicationText(Role))>>

\* The bytes of the frames sent after the first n.
Unread(n) == FramesBytes(SubSeq(sent, n + 1, Len(sent)))

\* C13: a bulk string with the length -1 decodes to the null marker, not to
\* an empty string, and the read stops after the CRLF of its length line.
C13_NullBulkDecode ==
    (ndec = 1 /\ sent[1] = NullBulkFrame)
    => /\ decoded.st = "ok"
       /\ decoded.val = None
       /\ stream = Unread(1)

\* C14: the bytes the server's bulk string encoder writes for a str, or for
\* None, decode to that str, or to the null marker, and the decode consumes
\* exactly those bytes.
C14_BulkRoundTrip ==
    (ndec = 1 /\ sent[1].k = "gen")
    => /\ decoded.st = "ok"
       /\ SameValue(decoded.val, FrameValue(sent[1]))
       /\ stream = Unread(1)

\* What belongs to session s.
SessionView(s) ==
    <<eof[s], peer[s], pc[s], cur[s], storage[s], outbuf[s], reply[s], wire[s],
      ncmd[s], fsocketOpen[s], socketOpen[s]>>

\* The store of a session holds the values of its own SETs and no other
\* key, and its GETs are answered from them.
C15_State ==
    \A s \in DOMAIN pc :
        /\ DOMAIN storage[s] = DOMAIN lastSet[s]
        /\ \A k \in DOMAIN storage[s] : storage[s][k].value = lastSet[s][k].value
        /\ AfterCommand(s, "GET")
           => IF cur[s].args[1] \in DOMAIN lastSet[s]
              THEN /\ Len(reply[s]) = 1
                   /\ Carries(reply[s][1], lastSet[s][cur[s].args[1]].value)
              ELSE reply[s] = <<NullReply>>

\* A step of one session, its closing and its failing included, changes
\* nothing of another session.
C15_Step ==
    \A a, b \in DOMAIN pc :
        (a # b /\ SessionView(a)' # SessionView(a)) => SessionView(b)' = SessionView(b)

\* C15: with two sessions running concurrently, a SET in one never shows in
\* the store or in the GET replies of the other, and no step of one session,
\* its end included, changes the other.
C15_IndependentStores == []C15_State /\ [][C15_Step]_vars

\* Session 1 has stored k and is closed; session 2 has answered a GET of k
\* with the null reply and has k in its own store afterwards or not at all.
C15_Witness ==
    /\ DOMAIN pc = {1, 2}
    /\ pc[1] = "closed" /\ <<"k">> \in DOMAIN storage[1]
    /\ AfterCommand(2, "GET") /\ reply[2] = <<NullReply>>
    /\ storage[2] = <<>>

\* The frames of text: simple strings, errors, integers, bulk strings of a
\* length of 0 or more, and arrays of such frames, arrays among them.
RECURSIVE TextFrame(_)
TextFrame(d) ==
    /\ d.k \in {"simple", "error", "int", "bulk", "arr", "arrneg"}
    /\ d.k = "arr" => \A i \in 1..Len(d.e) : TextFrame(d.e[i])

C17_EveryCommandReplies ==
    \A s \in DOMAIN pc :
        (pc[s] = "await" /\ cur[s].cmd # "") => Len(reply[s]) >= 1

\* C18: the store of a session changes only in the step of a SET with two
\* arguments or with four, the third PX and the fourth a number, and then
\* only in the entry of the key the SET names; every other command, a GET
\* of an expired entry included, leaves every entry as it is.
C18_StoreChangesOnlyInSet ==
    [][\A s \in DOMAIN pc :
          storage'[s] # storage[s]
          => /\ pc[s] = "dispatch" /\ cur[s].cmd = "SET"
             /\ ~ArgumentError(cur[s])
             /\ DOMAIN storage'[s] = (DOMAIN storage[s]) \cup {cur[s].args[1]}
             /\ \A k \in (DOMAIN storage[s]) \ {cur[s].args[1]} :
                   storage'[s][k] = storage[s][k]]_vars

\* A GET has reported an entry expired, and the entry is still in the store.
C18_Witness ==
    \E s \in DOMAIN pc :
        /\ AfterCommand(s, "GET") /\ reply[s] = <<NullReply>>
        /\ cur[s].args[1] \in DOMAIN storage[s]
        /\ storage[s][cur[s].args[1]].expire_at # None
        /\ now > storage[s][cur[s].args[1]].expire_at.v

C20_FailedSetChangesNothing ==
    [][\A s \in DOMAIN pc :
          (Executes(s) /\ cur[s].cmd = "SET" /\ ArgumentError(cur[s]))
          => /\ storage'[s] = storage[s]
             /\ lastSet'[s] = lastSet[s]
             /\ reply'[s] = <<>>
             /\ outbuf'[s] = outbuf[s]]_vars

\* SET k a PX abc has failed on a store that holds k with the value of an
\* earlier SET.
C20_Witness ==
    \E s \in DOMAIN pc :
        /\ pc[s] = "closed" /\ cur[s].cmd = "SET"
        /\ Len(cur[s].args) = 4 /\ cur[s].args[4] = <<"a", "b", "c">>
        /\ <<"k">> \in DOMAIN storage[s]
        /\ storage[s][<<"k">>] = RedisData(<<"U+E9">>, None)
        /\ reply[s] = <<>>

====
